---- MODULE Spec2Model ----
(***************************************************************************)
(* State-machine model of src/main_franz_qwen3vl.py: the control loop     *)
(* (main), the HUD overlay with its Pause Gate and message loop, and the   *)
(* attention-marker manager (ObsManager / LabeledObsWindow).               *)
(*                                                                         *)
(* Threads: "main" (the control loop), "hud" (HUD._thread), one thread per *)
(* marker (LabeledObsWindow._thread).  The operator, the decision service, *)
(* SendInput and the screen-capture calls are the environment: their       *)
(* outcomes are chosen nondeterministically from small sets.               *)
(***************************************************************************)
EXTENDS Integers, Sequences, FiniteSets, TLC

\* ------------------------------------------------------------------ bounds
MaxSteps == 1
MaxQueue == 1
MaxSlow == 1
MaxDim == 2

\* ------------------------------------------------------- program constants
OBS_MAX_TARGETS == 4

\* HUD_DEFAULT_ZOOM_NUM = HUD_DEFAULT_FONT_ZOOM
HUD_DEFAULT_ZOOM_NUM == 180

DEFAULT_HUD_TEXT == "default"
Missing == "<missing>"
Stories == {"s1"}
OperatorTexts == {"op"}

TOOL_NAME_SET ==
    {"click", "double_click", "right_click", "drag", "type_text", "scroll", "attend"}

VARIABLES
    \* --- control loop (main)
    pc,          \* position of the control loop in main()
    step,        \* main's step counter
    resp,        \* the decision reply being handled in this step (tool, args)
    story,       \* main's local `story`
    targets,     \* the list show_multiple iterates over
    showIdx,     \* index of show_multiple's loop
    hideIdx,     \* index of hide_all's loop
    hideRet,     \* where the running hide_all returns to
    execLeft,    \* send_input calls still to be made by execute()
    exc,         \* the exception that left the step loop ("none" if none)
    finalHide,   \* line 1238 (obs_mgr.hide_all() after the loop) has completed
    \* --- HUD
    hudTh,       \* position of HUD._thread
    hudQ,        \* message queue of the HUD thread
    hudHwnd,     \* HUD.hwnd is set
    hudEdit,     \* HUD.edit is set
    hudWin,      \* the native HUD window exists
    hudReady, hudStop, pauseEvent,   \* threading.Event objects
    paused,      \* HUD.paused
    btnLabel,    \* text of the toggle control
    readonly,    \* the text region is read-only
    hudText,     \* text shown by the text region
    zoomNum,     \* HUD.zoom_num
    wheel,       \* the last WM_MOUSEWHEEL a surface's thread has dispatched
    \* --- ObsManager
    windows,     \* ObsManager.windows
    stale,       \* marker threads still alive but no longer in ObsManager.windows
    \* --- history of the current step
    stepOutcome, \* "none", "vlm_error", "args_error", "inject_error"
    malformed,   \* the reply handled in this step was unknown/malformed
    injected,    \* send_input calls that succeeded in this step
    stepUpdated, \* HUD.update was called by the loop in this step
    textBefore,  \* HUD text but for the loop's writes of this step
    foreign,     \* fields of a started surface assigned by a thread other than its own
    \* --- function calls evaluated on their own
    call,        \* the call being evaluated: function and arguments
    out          \* what the call returned or raised

mainVars == <<pc, step, resp, story, targets, showIdx, hideIdx, hideRet, execLeft, exc, finalHide>>
hudVars  == <<hudTh, hudQ, hudHwnd, hudEdit, hudWin, hudReady, hudStop, pauseEvent,
              paused, btnLabel, readonly, hudText, zoomNum, wheel>>
obsVars  == <<windows, stale>>
histVars == <<stepOutcome, malformed, injected, stepUpdated, textBefore, foreign>>
callVars == <<call, out>>
vars     == <<mainVars, hudVars, obsVars, histVars, callVars>>

\* ------------------------------------------------------------ environment

\* One element of an attend reply's `targets` list: an object with x, y, label
\* (ok = TRUE) or something that is not an object (ok = FALSE).
Pt(x, y)  == [ok |-> TRUE, x |-> x, y |-> y]
BadTarget == [ok |-> FALSE, x |-> 0, y |-> 0]
Center    == Pt(500, 500)
Other     == Pt(300, 700)

NoTargets == [present |-> FALSE, isList |-> FALSE, items |-> <<>>]
TList(s)  == [present |-> TRUE, isList |-> TRUE, items |-> s]
TNotList  == [present |-> TRUE, isList |-> FALSE, items |-> <<>>]

\* A reply of the decision service.  net: the HTTP call returned or raised;
\* name: the tool name; isObj: the arguments decode to an object;
\* story: the `story` argument or Missing; coords: the numeric arguments of the
\* tool ("ok", "missing" or "nonnum"); targets: the `targets` argument.
Reply(net, name, isObj, st, coords, tg) ==
    [net |-> net, name |-> name, isObj |-> isObj, story |-> st,
     coords |-> coords, targets |-> tg]

NoReply == Reply("none", "", FALSE, Missing, "ok", NoTargets)

Responses ==
    {Reply("timeout", "", FALSE, Missing, "ok", NoTargets),
     Reply("ok", "launch", TRUE, "s1", "ok", NoTargets),
     Reply("ok", "click", FALSE, Missing, "ok", NoTargets)}
    \cup {Reply("ok", n, TRUE, "s1", "ok", NoTargets) :
            n \in {"click", "double_click", "right_click", "drag", "type_text", "scroll"}}
    \cup {Reply("ok", "click", TRUE, "s1", c, NoTargets) : c \in {"missing", "nonnum"}}
    \cup {Reply("ok", "click", TRUE, Missing, "ok", NoTargets)}
    \cup {Reply("ok", "attend", TRUE, "s1", "ok", t) :
            t \in {NoTargets, TNotList, TList(<<>>),
                   TList(<<Other>>),
                   TList(<<Other, Other, Other, Other, Other>>),
                   TList(<<BadTarget>>),
                   TList(<<Other, BadTarget>>)}}


\* --------------------------------------------------------------- helpers

\* call_vlm raises (urlopen error or timeout, unknown tool name, arguments that
\* are not an object); otherwise it returns (name, args).
CallVlmRaises(r) ==
    \/ r.net # "ok"
    \/ r.name \notin TOOL_NAME_SET
    \/ ~r.isObj

\* The reply names an unknown action or carries malformed arguments.
MalformedReply(r) ==
    /\ r.net = "ok"
    /\ \/ r.name \notin TOOL_NAME_SET
       \/ ~r.isObj
       \/ r.story = Missing
       \/ (r.name \in TOOL_NAME_SET \ {"attend"} /\ r.coords # "ok")
       \/ (r.name = "attend" /\ r.targets.isList
             /\ \E i \in 1..Len(r.targets.items) : ~r.targets.items[i].ok)

\* execute(): evaluating the arguments raises (KeyError / ValueError) before
\* anything is injected.
ExecArgsRaise(r) == r.coords # "ok"

\* Number of send_input calls execute() makes for a tool.
Batches(name) ==
    CASE name \in {"click", "right_click", "type_text", "scroll"} -> 1
      [] name = "double_click" -> 2
      [] name = "drag" -> 12
      [] OTHER -> 0

\* A marker surface: target point, position of its thread, the Python field
\* hwnd, its ready and stop events, whether a WM_CLOSE is waiting in its
\* queue, and its zoom_num.
Marker(pt) ==
    [pt |-> pt, th |-> "start", hwnd |-> FALSE, ready |-> FALSE, stop |-> FALSE, msg |-> FALSE,
     zoom |-> HUD_DEFAULT_ZOOM_NUM]

Alive(m) == m.th # "dead"

TrackedAlive == {i \in 1..Len(windows) : Alive(windows[i])}

\* Every marker surface whose thread has started and has not terminated.
LiveMarkers == Cardinality(TrackedAlive) + stale

\* Tracked markers whose thread was still running when a bounded wait on it
\* (ready.wait in show, thread.join in hide) timed out.
Late == {i \in 1..Len(windows) :
            Alive(windows[i]) /\ (windows[i].th = "start" \/ windows[i].stop)}

\* Marker threads that have outlived a bounded wait.
Slow == Cardinality(Late) + stale

Write(field, by) == [field |-> field, by |-> by]

\* A WM_CLOSE is waiting in the HUD's queue.  The thread leaves its loop after
\* dispatching it, so nothing queued behind it is ever dispatched.
Closing == \E i \in 1..Len(hudQ) : hudQ[i] = "CLOSE"

\* No WM_MOUSEWHEEL has been dispatched yet.
NoWheel == [on |-> "none"]

\* No function call is being evaluated on its own.
NoCall == [fn |-> "none"]
NoOut  == [raised |-> "none"]

\* ------------------------------------------------------------------ Init
Init ==
    /\ pc = "enter" /\ step = 0 /\ resp = NoReply /\ story = ""
    /\ targets = <<>> /\ showIdx = 1 /\ hideIdx = 1 /\ hideRet = "decide"
    /\ execLeft = 0 /\ exc = "none" /\ finalHide = FALSE
    /\ hudTh = "none" /\ hudQ = <<>> /\ hudHwnd = FALSE /\ hudEdit = FALSE
    /\ hudWin = FALSE /\ hudReady = FALSE /\ hudStop = FALSE /\ pauseEvent = FALSE
    /\ paused = TRUE /\ btnLabel = "" /\ readonly = FALSE /\ hudText = ""
    /\ zoomNum = HUD_DEFAULT_ZOOM_NUM /\ wheel = NoWheel
    /\ windows = <<>> /\ stale = 0
    /\ stepOutcome = "none" /\ malformed = FALSE /\ injected = 0
    /\ stepUpdated = FALSE /\ textBefore = ""
    /\ foreign = {}
    /\ call = NoCall /\ out = NoOut

\* The process is alive: its daemon threads end with main().
Running == pc # "done"

\* ------------------------------------------------------------ HUD thread

\* SetPaused that leaves the text region's read-only flag alone.
SetPaused_KeepEditability(p) ==
    /\ paused' = p
    /\ btnLabel' = IF hudWin THEN (IF p THEN "RESUME" ELSE "PAUSE") ELSE btnLabel
    /\ readonly' = readonly
    /\ pauseEvent' = ~p

\* HUD._set_paused(p), run by the HUD thread.
SetPaused(p) ==
    /\ paused' = p
    /\ btnLabel' = IF hudWin THEN (IF p THEN "RESUME" ELSE "PAUSE") ELSE btnLabel
    /\ readonly' = IF hudEdit THEN ~p ELSE readonly
    /\ pauseEvent' = ~p

\* HudCreate whose failure paths return without ready.set().
HudCreate_SilentFailure ==
    /\ Running
    /\ hudTh = "start"
    /\ \/ /\ hudTh' = "dead"
          /\ UNCHANGED <<hudQ, hudHwnd, hudEdit, hudWin, hudReady, hudStop, pauseEvent,
                         paused, btnLabel, readonly, hudText>>
       \/ /\ hudTh' = "check"
          /\ hudHwnd' = TRUE /\ hudWin' = TRUE
          /\ hudEdit' = TRUE /\ readonly' = FALSE
          /\ paused' = TRUE /\ btnLabel' = "RESUME" /\ pauseEvent' = FALSE
          /\ hudReady' = TRUE
          /\ UNCHANGED <<hudQ, hudStop, hudText>>
    /\ UNCHANGED <<mainVars, obsVars, histVars, callVars>>
    /\ UNCHANGED <<zoomNum, wheel>>

\* HUD._thread up to ready.set(): class registration or window creation fails
\* (ready is set and the thread returns), or the window, its text region and
\* its toggle are created and _set_paused(True) runs.
HudCreate ==
    /\ Running
    /\ hudTh = "start"
    /\ \/ /\ hudTh' = "dead"
          /\ hudReady' = TRUE
          /\ UNCHANGED <<hudQ, hudHwnd, hudEdit, hudWin, hudStop, pauseEvent, paused,
                         btnLabel, readonly, hudText>>
       \/ /\ hudTh' = "check"
          /\ hudHwnd' = TRUE /\ hudWin' = TRUE
          /\ hudEdit' = TRUE /\ readonly' = FALSE
          /\ paused' = TRUE /\ btnLabel' = "RESUME" /\ pauseEvent' = FALSE
          /\ hudReady' = TRUE
          /\ UNCHANGED <<hudQ, hudStop, hudText>>
    /\ UNCHANGED <<mainVars, obsVars, histVars>>
    /\ UNCHANGED callVars
    /\ UNCHANGED <<zoomNum, wheel>>

\* `while not self.stop.is_set()`: the loop test of HUD._thread.  A thread that
\* ends takes its window with it.
HudCheck ==
    /\ Running
    /\ hudTh = "check"
    /\ IF hudStop THEN hudTh' = "dead" /\ hudWin' = FALSE
                  ELSE hudTh' = "getmsg" /\ hudWin' = hudWin
    /\ UNCHANGED <<hudQ, hudHwnd, hudEdit, hudReady, hudStop, pauseEvent, paused,
                   btnLabel, readonly, hudText>>
    /\ UNCHANGED <<mainVars, obsVars, histVars>>
    /\ UNCHANGED callVars
    /\ UNCHANGED <<zoomNum, wheel>>

\* GetMessageW / DispatchMessageW -> HUD._wndproc for the message at the head
\* of the queue: WM_COMMAND of the toggle, or WM_CLOSE.
HudDispatch ==
    /\ Running
    /\ hudTh = "getmsg"
    /\ hudQ # <<>>
    /\ hudQ' = Tail(hudQ)
    /\ hudTh' = "check"
    /\ \/ /\ Head(hudQ) = "CMD"
          /\ SetPaused(~paused)
          /\ UNCHANGED <<hudWin, hudStop>>
       \/ /\ Head(hudQ) = "CLOSE"
          /\ hudStop' = TRUE /\ pauseEvent' = TRUE /\ hudWin' = FALSE
          /\ UNCHANGED <<paused, btnLabel, readonly>>
    /\ UNCHANGED <<hudHwnd, hudEdit, hudReady, hudText>>
    /\ UNCHANGED <<mainVars, obsVars, histVars>>
    /\ UNCHANGED callVars
    /\ UNCHANGED <<zoomNum, wheel>>

\* --------------------------------------------------------------- operator

\* The operator clicks the PAUSE/RESUME toggle: WM_COMMAND is queued.
OperatorToggle ==
    /\ Running
    /\ hudWin /\ ~Closing /\ Len(hudQ) < MaxQueue
    /\ hudQ' = Append(hudQ, "CMD")
    /\ UNCHANGED <<hudTh, hudHwnd, hudEdit, hudWin, hudReady, hudStop, pauseEvent,
                   paused, btnLabel, readonly, hudText>>
    /\ UNCHANGED <<mainVars, obsVars, histVars>>
    /\ UNCHANGED callVars
    /\ UNCHANGED <<zoomNum, wheel>>

\* The operator closes the HUD: WM_CLOSE is queued.
OperatorClose ==
    /\ Running
    /\ hudWin /\ ~Closing /\ Len(hudQ) < MaxQueue
    /\ hudQ' = Append(hudQ, "CLOSE")
    /\ UNCHANGED <<hudTh, hudHwnd, hudEdit, hudWin, hudReady, hudStop, pauseEvent,
                   paused, btnLabel, readonly, hudText>>
    /\ UNCHANGED <<mainVars, obsVars, histVars>>
    /\ UNCHANGED callVars
    /\ UNCHANGED <<zoomNum, wheel>>

\* The operator rewrites the narrative; the text region accepts it only while
\* it is not read-only.
OperatorEdit ==
    /\ Running
    /\ hudWin /\ hudEdit /\ ~readonly
    /\ hudTh \in {"check", "getmsg"}
    /\ \E t \in OperatorTexts :
          /\ t # hudText
          /\ hudText' = t
          /\ textBefore' = t
    /\ UNCHANGED <<hudTh, hudQ, hudHwnd, hudEdit, hudWin, hudReady, hudStop, pauseEvent,
                   paused, btnLabel, readonly>>
    /\ UNCHANGED <<mainVars, obsVars, stepOutcome, malformed, injected, stepUpdated, foreign>>
    /\ UNCHANGED callVars
    /\ UNCHANGED <<zoomNum, wheel>>


\* ---------------------------------------------------------- marker threads

\* LabeledObsWindow._thread up to the first GetMessageW: creation fails and
\* the thread returns, or the window is created, self.hwnd is set and the loop
\* test `while not self.stop.is_set()` is made.
MarkerCreate(i) ==
    /\ Running
    /\ windows[i].th = "start"
    /\ \/ windows' = [windows EXCEPT ![i].th = "dead", ![i].ready = TRUE]
       \/ windows' = [windows EXCEPT ![i].th = IF windows[i].stop THEN "dead" ELSE "getmsg",
                                      ![i].hwnd = TRUE, ![i].ready = TRUE]
    /\ UNCHANGED <<mainVars, hudVars, stale, histVars>>
    /\ UNCHANGED callVars

\* GetMessageW returns the posted WM_CLOSE; _wndproc sets stop and destroys
\* the window; the loop test then ends the thread.
MarkerDispatch(i) ==
    /\ Running
    /\ windows[i].th = "getmsg"
    /\ windows[i].msg
    /\ windows' = [windows EXCEPT ![i].th = "dead", ![i].msg = FALSE, ![i].stop = TRUE]
    /\ UNCHANGED <<mainVars, hudVars, stale, histVars>>
    /\ UNCHANGED callVars

\* A marker thread that outlived its hide() (stop set, WM_CLOSE posted)
\* terminates.
StaleExit ==
    /\ Running
    /\ stale > 0
    /\ stale' = stale - 1
    /\ UNCHANGED <<mainVars, hudVars, windows, histVars>>
    /\ UNCHANGED callVars

\* ------------------------------------------------------------- mouse wheel

\* _wndproc of either surface on WM_MOUSEWHEEL with the modifier held:
\* delta > 0: min(400, int(zoom_num * 1.1)), else max(20, int(zoom_num * 0.9)).
\* int(z * 1.1) and int(z * 0.9) are z*11 \div 10 and z*9 \div 10 for every z
\* from 0 to 1000.
WheelZoom(z, delta) ==
    IF delta > 0 THEN (IF (z * 11) \div 10 < 400 THEN (z * 11) \div 10 ELSE 400)
                 ELSE (IF (z * 9) \div 10 > 20 THEN (z * 9) \div 10 ELSE 20)

\* WM_MOUSEWHEEL with the high word of wparam as a signed 16-bit delta
WheelDeltas == {-120, 120}

\* the wheel handler without the test of the modifier.
OnWheel_IgnoresModifier(z, delta, ctrl) == WheelZoom(z, delta)

\* the zoom_num a surface holds after its _wndproc has handled WM_MOUSEWHEEL;
\* ctrl: GetAsyncKeyState reports the modifier as held.
OnWheel(z, delta, ctrl) == IF ctrl THEN WheelZoom(z, delta) ELSE z

\* A WM_MOUSEWHEEL as its handler sees it: the surface it was sent to ("hud",
\* or "marker" and its index in ObsManager.windows), the
\* delta, the state of the modifier; seq tells two equal events in a row
\* apart.
WheelEvent(on, idx, delta, ctrl) ==
    [on |-> on, idx |-> idx, delta |-> delta, ctrl |-> ctrl,
     seq |-> IF wheel = NoWheel THEN 0 ELSE 1 - wheel.seq]

\* The operator turns the wheel over the HUD; its thread dispatches
\* WM_MOUSEWHEEL to HUD._wndproc and returns to its loop test.
HudWheel ==
    /\ Running
    /\ hudTh = "getmsg"
    /\ hudWin /\ hudQ = <<>>
    /\ \E delta \in WheelDeltas, ctrl \in BOOLEAN :
          /\ zoomNum' = OnWheel(zoomNum, delta, ctrl)
          /\ wheel' = WheelEvent("hud", 0, delta, ctrl)
    /\ hudTh' = "check"
    /\ UNCHANGED <<hudQ, hudHwnd, hudEdit, hudWin, hudReady, hudStop, pauseEvent,
                   paused, btnLabel, readonly, hudText>>
    /\ UNCHANGED <<mainVars, obsVars, histVars>>
    /\ UNCHANGED callVars

\* The operator turns the wheel over marker i; its thread dispatches
\* WM_MOUSEWHEEL to LabeledObsWindow._wndproc and goes on with its loop.
MarkerWheel(i) ==
    /\ Running
    /\ windows[i].th = "getmsg"
    /\ ~windows[i].msg /\ ~windows[i].stop
    /\ \E delta \in WheelDeltas, ctrl \in BOOLEAN :
          /\ windows' = [windows EXCEPT ![i].zoom = OnWheel(windows[i].zoom, delta, ctrl)]
          /\ wheel' = WheelEvent("marker", i, delta, ctrl)
    /\ UNCHANGED <<hudTh, hudQ, hudHwnd, hudEdit, hudWin, hudReady, hudStop, pauseEvent,
                   paused, btnLabel, readonly, hudText, zoomNum>>
    /\ UNCHANGED <<mainVars, stale, histVars>>
    /\ UNCHANGED callVars

\* ------------------------------------------------------------ control loop

\* HUD.update(text) called by the control loop: SetWindowTextW on the text
\* region (the system delivers it to the window as WM_SETTEXT; no field of the
\* HUD object is assigned).
HudUpdate(text) ==
    hudText' = IF hudEdit /\ hudWin THEN text ELSE hudText

\* obs_mgr.hide_all() starts; it returns to r.
BeginHideAll(r) == pc' = "hide" /\ hideIdx' = 1 /\ hideRet' = r

\* An exception leaves the step loop and the `with HUD()` block.
Raise(e) == pc' = "exit" /\ exc' = e

\* HUD.__enter__: the events are cleared and the HUD thread is started.
Enter ==
    /\ pc = "enter"
    /\ hudReady' = FALSE /\ hudStop' = FALSE /\ pauseEvent' = FALSE
    /\ hudTh' = "start"
    /\ pc' = "enter_wait"
    /\ UNCHANGED <<step, resp, story, targets, showIdx, hideIdx, hideRet, execLeft, exc, finalHide>>
    /\ UNCHANGED <<hudQ, hudHwnd, hudEdit, hudWin, paused, btnLabel, readonly, hudText>>
    /\ UNCHANGED <<obsVars, histVars>>
    /\ UNCHANGED callVars
    /\ UNCHANGED <<zoomNum, wheel>>

\* ready.wait(timeout=2.0); time.sleep(0.2): returns when ready is set or on
\* the timeout.
EnterWait ==
    /\ pc = "enter_wait"
    /\ pc' = "init_update"
    /\ UNCHANGED <<step, resp, story, targets, showIdx, hideIdx, hideRet, execLeft, exc, finalHide>>
    /\ UNCHANGED <<hudVars, obsVars, histVars>>
    /\ UNCHANGED callVars

\* hud.update(DEFAULT_HUD_TEXT); step = 0; obs_mgr = ObsManager()
InitUpdate ==
    /\ pc = "init_update"
    /\ HudUpdate(DEFAULT_HUD_TEXT)
    /\ textBefore' = hudText'
    /\ pc' = "wait0"
    /\ UNCHANGED <<step, resp, story, targets, showIdx, hideIdx, hideRet, execLeft, exc, finalHide>>
    /\ UNCHANGED <<hudTh, hudQ, hudHwnd, hudEdit, hudWin, hudReady, hudStop, pauseEvent,
                   paused, btnLabel, readonly>>
    /\ UNCHANGED <<obsVars, stepOutcome, malformed, injected, stepUpdated, foreign>>
    /\ UNCHANGED callVars
    /\ UNCHANGED <<zoomNum, wheel>>

\* HUD.wait() returns: `while self.paused and not self.stop.is_set()` is false.
WaitReturns == ~(paused /\ ~hudStop)

\* hud.wait() before the loop that returns without testing the gate.
Wait0_NoGate ==
    /\ pc = "wait0"
    /\ pc' = "loop_check"
    /\ UNCHANGED <<step, resp, story, targets, showIdx, hideIdx, hideRet, execLeft, exc, finalHide>>
    /\ UNCHANGED <<hudVars, obsVars, histVars>>
    /\ UNCHANGED callVars

\* hud.wait() before the loop
Wait0 ==
    /\ pc = "wait0"
    /\ WaitReturns
    /\ pc' = "loop_check"
    /\ UNCHANGED <<step, resp, story, targets, showIdx, hideIdx, hideRet, execLeft, exc, finalHide>>
    /\ UNCHANGED <<hudVars, obsVars, histVars>>
    /\ UNCHANGED callVars

\* `while not hud.stop.is_set()`; when it ends, obs_mgr.hide_all() follows
LoopCheck ==
    /\ pc = "loop_check"
    /\ IF hudStop
          THEN BeginHideAll("exit")
          ELSE pc' = "wait" /\ UNCHANGED <<hideIdx, hideRet>>
    /\ UNCHANGED <<step, resp, story, targets, showIdx, execLeft, exc, finalHide>>
    /\ UNCHANGED <<hudVars, obsVars, histVars>>
    /\ UNCHANGED callVars

\* hud.wait() at the top of a step
Wait ==
    /\ pc = "wait"
    /\ WaitReturns
    /\ pc' = "stop_check"
    /\ UNCHANGED <<step, resp, story, targets, showIdx, hideIdx, hideRet, execLeft, exc, finalHide>>
    /\ UNCHANGED <<hudVars, obsVars, histVars>>
    /\ UNCHANGED callVars

\* `if hud.stop.is_set(): break`
StopCheck ==
    /\ pc = "stop_check"
    /\ IF hudStop
          THEN BeginHideAll("exit")
          ELSE pc' = "capture" /\ UNCHANGED <<hideIdx, hideRet>>
    /\ UNCHANGED <<step, resp, story, targets, showIdx, execLeft, exc, finalHide>>
    /\ UNCHANGED <<hudVars, obsVars, histVars>>
    /\ UNCHANGED callVars

\* Capture that hands the frame straight to the decision call.
Capture_NoEncode ==
    /\ pc = "capture"
    /\ step' = IF step < MaxSteps THEN step + 1 ELSE step
    /\ \E captured \in BOOLEAN :
          IF captured THEN pc' = "decide" /\ exc' = exc
                      ELSE Raise("capture")
    /\ UNCHANGED <<resp, story, targets, showIdx, hideIdx, hideRet, execLeft, finalHide>>
    /\ UNCHANGED <<hudVars, obsVars, histVars>>
    /\ UNCHANGED callVars

\* step += 1; bgra = capture_screen(sw, sh): returns the frame or raises.
\* The counter only names the step's files and log lines: it is counted up to
\* MaxSteps and held there.
Capture ==
    /\ pc = "capture"
    /\ step' = IF step < MaxSteps THEN step + 1 ELSE step
    /\ \E captured \in BOOLEAN :
          IF captured THEN pc' = "encode" /\ exc' = exc
                      ELSE Raise("capture")
    /\ UNCHANGED <<resp, story, targets, showIdx, hideIdx, hideRet, execLeft, finalHide>>
    /\ UNCHANGED <<hudVars, obsVars, histVars>>
    /\ UNCHANGED callVars

\* Encode that goes on to the decision call without obs_mgr.hide_all().
Encode_NoHide ==
    /\ pc = "encode"
    /\ \E encoded \in BOOLEAN :
          IF encoded THEN pc' = "decide" /\ exc' = exc
                     ELSE Raise("encode")
    /\ UNCHANGED <<step, resp, story, targets, showIdx, hideIdx, hideRet, execLeft, finalHide>>
    /\ UNCHANGED <<hudVars, obsVars, histVars>>
    /\ UNCHANGED callVars

\* png = encode_png(downsample(...)); write_bytes; append_execution_log:
\* completes or raises; then obs_mgr.hide_all()
Encode ==
    /\ pc = "encode"
    /\ \E encoded \in BOOLEAN :
          IF encoded THEN BeginHideAll("decide") /\ exc' = exc
                     ELSE Raise("encode") /\ UNCHANGED <<hideIdx, hideRet>>
    /\ UNCHANGED <<step, resp, story, targets, showIdx, execLeft, finalHide>>
    /\ UNCHANGED <<hudVars, obsVars, histVars>>
    /\ UNCHANGED callVars


\* HideOne that sets stop and joins but posts no WM_CLOSE.
HideOne_NoPost ==
    /\ pc = "hide"
    /\ hideIdx <= Len(windows)
    /\ \/ windows' = [windows EXCEPT ![hideIdx].stop = TRUE,
                                     ![hideIdx].msg = FALSE,
                                     ![hideIdx].th = "dead",
                                     ![hideIdx].ready = TRUE,
                                     ![hideIdx].hwnd = FALSE]
       \/ /\ Alive(windows[hideIdx])
          /\ hideIdx \in Late \/ Slow < MaxSlow
          /\ windows' = [windows EXCEPT ![hideIdx].stop = TRUE,
                                        ![hideIdx].hwnd = FALSE]
    /\ foreign' = foreign \cup {Write("obs.hwnd", "main")}
    /\ hideIdx' = hideIdx + 1
    /\ UNCHANGED <<pc, step, resp, story, targets, showIdx, hideRet, execLeft, exc, finalHide>>
    /\ UNCHANGED <<hudVars, stale, stepOutcome, malformed, injected, stepUpdated, textBefore>>
    /\ UNCHANGED callVars

\* LabeledObsWindow.hide() of windows[hideIdx]: stop.set(); PostMessageW(WM_CLOSE)
\* when self.hwnd is set; thread.join(timeout=0.5); self.hwnd = None.  The join
\* returns because the marker's thread has ended (it found stop set, or it
\* dispatched the WM_CLOSE) or because the timeout expired with the thread
\* still running.
HideOne ==
    /\ pc = "hide"
    /\ hideIdx <= Len(windows)
    /\ \/ windows' = [windows EXCEPT ![hideIdx].stop = TRUE,
                                     ![hideIdx].msg = FALSE,
                                     ![hideIdx].th = "dead",
                                     ![hideIdx].ready = TRUE,
                                     ![hideIdx].hwnd = FALSE]
       \/ /\ Alive(windows[hideIdx])
          /\ hideIdx \in Late \/ Slow < MaxSlow
          /\ windows' = [windows EXCEPT ![hideIdx].stop = TRUE,
                                        ![hideIdx].msg = windows[hideIdx].hwnd,
                                        ![hideIdx].hwnd = FALSE]
    /\ foreign' = foreign \cup {Write("obs.hwnd", "main")}
    /\ hideIdx' = hideIdx + 1
    /\ UNCHANGED <<pc, step, resp, story, targets, showIdx, hideRet, execLeft, exc, finalHide>>
    /\ UNCHANGED <<hudVars, stale, stepOutcome, malformed, injected, stepUpdated, textBefore>>
    /\ UNCHANGED callVars

\* ObsManager.hide_all(): self.windows.clear() after the loop; the call returns.
HideClear ==
    /\ pc = "hide"
    /\ hideIdx > Len(windows)
    /\ stale' = stale + Cardinality(TrackedAlive)
    /\ windows' = <<>>
    /\ pc' = hideRet
    /\ finalHide' = (finalHide \/ hideRet = "exit")
    /\ UNCHANGED <<step, resp, story, targets, showIdx, hideIdx, hideRet, execLeft, exc>>
    /\ UNCHANGED <<hudVars, histVars>>
    /\ UNCHANGED callVars

\* OnVlmError without its `continue`: the step goes on to read the story.
OnVlmError_NoContinue ==
    /\ pc' = "story"
    /\ stepOutcome' = "vlm_error"
    /\ UNCHANGED <<resp, story>>

\* `except Exception` around the decision call: print, time.sleep(1.0), continue
OnVlmError ==
    /\ pc' = "vlm_sleep"
    /\ stepOutcome' = "vlm_error"
    /\ UNCHANGED <<resp, story>>

\* tool, args = call_vlm(png)
Decide ==
    /\ pc = "decide"
    /\ \E r \in Responses :
          /\ malformed' = MalformedReply(r)
          /\ IF CallVlmRaises(r)
                THEN OnVlmError
                ELSE resp' = r /\ pc' = "story" /\ UNCHANGED <<stepOutcome, story>>
    /\ UNCHANGED <<step, targets, showIdx, hideIdx, hideRet, execLeft, exc, finalHide>>
    /\ UNCHANGED <<hudVars, obsVars, injected, stepUpdated, textBefore, foreign>>
    /\ UNCHANGED callVars

\* The step is over: its locals are dead and its history is closed.
EndStep ==
    /\ pc' = "loop_check"
    /\ resp' = NoReply /\ story' = "" /\ targets' = <<>> /\ showIdx' = 1
    /\ stepOutcome' = "none" /\ malformed' = FALSE /\ injected' = 0
    /\ stepUpdated' = FALSE /\ textBefore' = hudText
    /\ UNCHANGED <<step, hideIdx, hideRet, execLeft, exc, finalHide>>
    /\ UNCHANGED <<hudVars, obsVars, foreign>>
    /\ UNCHANGED callVars

\* the `continue` after time.sleep(1.0)
VlmSleep ==
    /\ pc = "vlm_sleep"
    /\ EndStep

\* story = str(args["story"]).strip(): KeyError when the reply has no story
Story ==
    /\ pc = "story"
    /\ IF resp.story = Missing
          THEN Raise("story") /\ UNCHANGED story
          ELSE story' = resp.story /\ pc' = "route" /\ exc' = exc
    /\ UNCHANGED <<step, resp, targets, showIdx, hideIdx, hideRet, execLeft, finalHide>>
    /\ UNCHANGED <<hudVars, obsVars, histVars>>
    /\ UNCHANGED callVars

\* obs_mgr.show_multiple(t, ...) starts: self.hide_all(), then the loop
BeginShowMultiple(t) == targets' = t /\ showIdx' = 1 /\ BeginHideAll("show")

\* the `targets` an attend reply leads to
AttendTargets(r) ==
    IF ~r.targets.present \/ ~r.targets.isList \/ r.targets.items = <<>>
       THEN <<Center>>
       ELSE r.targets.items

\* the point of a click or drag reply that the loop marks after executing it
ArgPoint == Other

\* OnExecError that logs the failure and raises it again.
OnExecError_Reraise(kind) ==
    /\ stepOutcome' = kind
    /\ Raise("exec")
    /\ execLeft' = 0
    /\ UNCHANGED <<resp, targets, showIdx, hideIdx, hideRet>>

\* `except Exception` around execute(): the action is replaced by an attend
\* at (500,500) and its marker is shown
OnExecError(kind) ==
    /\ stepOutcome' = kind
    /\ resp' = Reply("ok", "attend", TRUE, story, "ok", TList(<<Center>>))
    /\ BeginShowMultiple(<<Center>>)
    /\ execLeft' = 0
    /\ UNCHANGED exc

\* Route that hands every tool, attend included, to the injector.
Route_AttendInjects ==
    /\ pc = "route"
    /\ IF ExecArgsRaise(resp)
          THEN OnExecError("args_error")
          ELSE /\ execLeft' = (IF resp.name = "attend" THEN 1 ELSE Batches(resp.name))
               /\ pc' = "exec"
               /\ UNCHANGED <<resp, targets, showIdx, hideIdx, hideRet, exc, stepOutcome>>
    /\ UNCHANGED <<step, story, finalHide>>
    /\ UNCHANGED <<hudVars, obsVars, malformed, injected, stepUpdated, textBefore, foreign>>
    /\ UNCHANGED callVars

\* `if tool == "attend"` ... `else: try: execute(tool, args, conv)`, up to
\* the first send_input call
Route ==
    /\ pc = "route"
    /\ IF resp.name = "attend"
          THEN /\ BeginShowMultiple(AttendTargets(resp))
               /\ UNCHANGED <<resp, execLeft, exc, stepOutcome>>
          ELSE IF ExecArgsRaise(resp)
                  THEN OnExecError("args_error")
                  ELSE /\ execLeft' = Batches(resp.name)
                       /\ pc' = "exec"
                       /\ UNCHANGED <<resp, targets, showIdx, hideIdx, hideRet, exc, stepOutcome>>
    /\ UNCHANGED <<step, story, finalHide>>
    /\ UNCHANGED <<hudVars, obsVars, malformed, injected, stepUpdated, textBefore, foreign>>
    /\ UNCHANGED callVars

\* one send_input call of execute(): SendInput delivers every event of the
\* batch, or fewer, and then send_input raises
Exec ==
    /\ pc = "exec"
    /\ execLeft > 0
    /\ \E delivered \in BOOLEAN :
          IF delivered
             THEN /\ injected' = injected + 1
                  /\ execLeft' = execLeft - 1
                  /\ UNCHANGED <<pc, resp, targets, showIdx, hideIdx, hideRet, exc, stepOutcome>>
             ELSE OnExecError("inject_error") /\ UNCHANGED injected
    /\ UNCHANGED <<step, story, finalHide>>
    /\ UNCHANGED <<hudVars, obsVars, malformed, stepUpdated, textBefore, foreign>>
    /\ UNCHANGED callVars

\* execute() returned: the `else` branch marks the point of a click or the end
\* of a drag
ExecDone ==
    /\ pc = "exec"
    /\ execLeft = 0
    /\ IF resp.name \in {"click", "double_click", "right_click", "drag"}
          THEN BeginShowMultiple(<<ArgPoint>>)
          ELSE pc' = "update" /\ UNCHANGED <<targets, showIdx, hideIdx, hideRet>>
    /\ UNCHANGED <<step, resp, story, execLeft, exc, finalHide>>
    /\ UNCHANGED <<hudVars, obsVars, histVars>>
    /\ UNCHANGED callVars

\* number of targets show_multiple iterates over: targets[:OBS_MAX_TARGETS]
ShowCount == IF Len(targets) < OBS_MAX_TARGETS THEN Len(targets) ELSE OBS_MAX_TARGETS

\* The marker LabeledObsWindow.show() leaves behind when ready.wait(timeout=1.0)
\* returns: its thread has set ready with the window created ("getmsg") or with
\* the creation failed ("dead"), or the wait timed out ("start").  show() has
\* stored the zoom_num it was given, main's reading of hud.zoom_num.
Shown(pt, th) ==
    [Marker(pt) EXCEPT !.th = th, !.hwnd = (th = "getmsg"), !.ready = (th # "start"),
                       !.zoom = zoomNum]

\* one iteration of show_multiple's loop: t.get raises on a target that is not
\* an object; otherwise obs.show(...) and self.windows.append(obs)
ShowOne ==
    /\ pc = "show"
    /\ showIdx <= ShowCount
    /\ IF targets[showIdx].ok
          THEN /\ \E th \in {"getmsg", "dead", "start"} :
                    /\ th = "start" => Slow < MaxSlow
                    /\ windows' = Append(windows, Shown(targets[showIdx], th))
               /\ showIdx' = showIdx + 1
               /\ UNCHANGED <<pc, exc>>
          ELSE Raise("targets") /\ UNCHANGED <<windows, showIdx>>
    /\ UNCHANGED <<step, resp, story, targets, hideIdx, hideRet, execLeft, finalHide>>
    /\ UNCHANGED <<hudVars, stale, histVars>>
    /\ UNCHANGED callVars

\* show_multiple returns
ShowDone ==
    /\ pc = "show"
    /\ showIdx > ShowCount
    /\ pc' = "update"
    /\ UNCHANGED <<step, resp, story, targets, showIdx, hideIdx, hideRet, execLeft, exc, finalHide>>
    /\ UNCHANGED <<hudVars, obsVars, histVars>>
    /\ UNCHANGED callVars

\* hud.update(story)
Update ==
    /\ pc = "update"
    /\ HudUpdate(story)
    /\ stepUpdated' = TRUE
    /\ pc' = "sleep"
    /\ UNCHANGED <<step, resp, story, targets, showIdx, hideIdx, hideRet, execLeft, exc, finalHide>>
    /\ UNCHANGED <<hudTh, hudQ, hudHwnd, hudEdit, hudWin, hudReady, hudStop, pauseEvent,
                   paused, btnLabel, readonly>>
    /\ UNCHANGED <<obsVars, stepOutcome, malformed, injected, textBefore, foreign>>
    /\ UNCHANGED callVars
    /\ UNCHANGED <<zoomNum, wheel>>

\* time.sleep(0.3); back to the loop test
Sleep ==
    /\ pc = "sleep"
    /\ EndStep

\* HUD.__exit__: stop.set(); pause_event.set(); PostMessageW(WM_CLOSE)
Exit ==
    /\ pc = "exit"
    /\ hudStop' = TRUE /\ pauseEvent' = TRUE
    /\ hudQ' = IF hudHwnd /\ hudWin /\ ~Closing THEN Append(hudQ, "CLOSE") ELSE hudQ
    /\ pc' = "exit_join"
    /\ UNCHANGED <<step, resp, story, targets, showIdx, hideIdx, hideRet, execLeft, exc, finalHide>>
    /\ UNCHANGED <<hudTh, hudHwnd, hudEdit, hudWin, hudReady, paused, btnLabel, readonly, hudText>>
    /\ UNCHANGED <<obsVars, histVars>>
    /\ UNCHANGED callVars
    /\ UNCHANGED <<zoomNum, wheel>>

\* HUD.__exit__: thread.join(timeout=1.0) returns; main() ends and the process
\* with it: the HUD thread, a daemon, ends too.  The markers are left as they
\* are at that moment.
ExitJoin ==
    /\ pc = "exit_join"
    /\ pc' = "done"
    /\ hudTh' = "dead" /\ hudWin' = FALSE /\ hudQ' = <<>>
    /\ UNCHANGED <<step, resp, story, targets, showIdx, hideIdx, hideRet, execLeft, exc, finalHide>>
    /\ UNCHANGED <<hudHwnd, hudEdit, hudReady, hudStop, pauseEvent, paused, btnLabel, readonly, hudText>>
    /\ UNCHANGED <<obsVars, histVars>>
    /\ UNCHANGED callVars
    /\ UNCHANGED <<zoomNum, wheel>>

\* -------------------------------------------------------------------- Next

Next ==
    \/ HudCreate
    \/ HudCheck
    \/ HudDispatch
    \/ OperatorToggle
    \/ OperatorClose
    \/ OperatorEdit
    \/ \E i \in 1..Len(windows) : MarkerCreate(i)
    \/ \E i \in 1..Len(windows) : MarkerDispatch(i)
    \/ StaleExit
    \/ Enter \/ EnterWait \/ InitUpdate \/ Wait0 \/ LoopCheck \/ Wait \/ StopCheck
    \/ Capture \/ Encode \/ HideOne \/ HideClear
    \/ Decide \/ VlmSleep \/ Story \/ Route \/ Exec \/ ExecDone
    \/ ShowOne \/ ShowDone \/ Update \/ Sleep \/ Exit \/ ExitJoin

Spec == Init /\ [][Next]_vars


\* ------------------------------------------------- functions on their own

\* A buffer of n bytes; byte i carries the value i.
Bytes(n) == [i \in 1..n |-> i]

\* b[lo:hi] of Python, lo and hi counted from 0: the slice is cut at the end
\* of b and never raises.
Slice(b, lo, hi) == SubSeq(b, lo + 1, IF hi < Len(b) THEN hi ELSE Len(b))

Returned(v) == [raised |-> "none", value |-> v]
Raised(e)   == [raised |-> e, value |-> <<>>]

\* What StretchBlt leaves in the destination bitmap: dw*dh*4 bytes.  Their
\* values are the system's resampling and are not modelled (0 everywhere).
Stretched(dw, dh) == [i \in 1..(dw * dh * 4) |-> 0]

\* downsample with the soft-failure test ahead of the equal-size test.
Downsample_ChecksFirst(src, sw, sh, dw, dh, gdiOk) ==
    IF sw <= 0 \/ sh <= 0 \/ dw <= 0 \/ dh <= 0 \/ Len(src) < sw * sh * 4
        THEN Returned(<<>>)
    ELSE IF <<sw, sh>> = <<dw, dh>> THEN Returned(src)
    ELSE IF ~gdiOk THEN Raised("WinError")
    ELSE Returned(Stretched(dw, dh))

\* downsample(src, sw, sh, dw, dh); gdiOk: every GDI call it makes succeeds.
Downsample(src, sw, sh, dw, dh, gdiOk) ==
    IF <<sw, sh>> = <<dw, dh>> THEN Returned(src)
    ELSE IF sw <= 0 \/ sh <= 0 \/ dw <= 0 \/ dh <= 0 \/ Len(src) < sw * sh * 4
            THEN Returned(<<>>)
    ELSE IF ~gdiOk THEN Raised("WinError")
    ELSE Returned(Stretched(dw, dh))

\* row y of encode_png: bgra[y*width*4 : (y+1)*width*4]
PngRow(bgra, width, y) == Slice(bgra, y * width * 4, (y + 1) * width * 4)

\* the triple in the byte order of the source (B, G, R).
PngTriple_NoSwap(row, x) == <<row[x * 4 + 1], row[x * 4 + 2], row[x * 4 + 3]>>

\* the three bytes encode_png writes for pixel x of a row: row[x*4+2],
\* row[x*4+1], row[x*4+0]
PngTriple(row, x) == <<row[x * 4 + 3], row[x * 4 + 2], row[x * 4 + 1]>>

\* the scanline of row y: the filter byte 0, then the triples of its pixels
RECURSIVE PngTriples(_, _, _)
PngTriples(row, width, x) ==
    IF x >= width THEN <<>>
    ELSE PngTriple(row, x) \o PngTriples(row, width, x + 1)

PngScanline(bgra, width, y) == <<0>> \o PngTriples(PngRow(bgra, width, y), width, 0)

\* raw of encode_png: the scanlines of rows y, y+1, ..., height-1 in order
RECURSIVE PngRaw(_, _, _, _)
PngRaw(bgra, width, height, y) ==
    IF y >= height THEN <<>>
    ELSE PngScanline(bgra, width, y) \o PngRaw(bgra, width, height, y + 1)

\* b"\x89PNG\r\n\x1a\n"
PNG_SIGNATURE == <<137, 80, 78, 71, 13, 10, 26, 10>>

\* zlib.compress(data, 6), struct.pack(">I", v), len(data) and
\* zlib.crc32(tag + data) & 0xFFFFFFFF are kept as constructors around what
\* they are applied to.
ZlibCompress(data) == [zlib |-> data, level |-> 6]
PackU32(v)         == [u32be |-> v]
LenOf(data)        == [len |-> data]
Crc32(tag, data)   == [crc32 |-> <<tag, data>>]

\* struct.pack(">2I5B", width, height, 8, 2, 0, 0, 0): the fields in order
Ihdr(width, height) == <<width, height, 8, 2, 0, 0, 0>>

\* a chunk without its CRC field.
Chunk_NoCrc(tag, data) == <<PackU32(LenOf(data)), tag, data>>

\* chunk(tag, data) of encode_png: the parts in the order they are concatenated
Chunk(tag, data) == <<PackU32(LenOf(data)), tag, data, PackU32(Crc32(tag, data))>>

\* encode_png(bgra, width, height).  bytearray() raises on a negative size,
\* row[x*4+2] raises when the row is too short, struct.pack(">2I...") raises on
\* a negative dimension.  The result is the sequence of the parts that are
\* concatenated: the signature and the three chunks.
EncodePng(bgra, width, height) ==
    IF (width * 3 + 1) * height < 0 THEN Raised("ValueError")
    ELSE IF \E y \in 0..(height - 1) : \E x \in 0..(width - 1) :
                Len(PngRow(bgra, width, y)) < x * 4 + 3
            THEN Raised("IndexError")
    ELSE IF width < 0 \/ height < 0 THEN Raised("struct.error")
    ELSE Returned(<<PNG_SIGNATURE,
                    Chunk("IHDR", Ihdr(width, height)),
                    Chunk("IDAT", ZlibCompress(PngRaw(bgra, width, height, 0))),
                    Chunk("IEND", <<>>)>>)

\* RES_PRESETS: the frame sizes main can downsample to
RES_PRESETS == [low |-> <<512, 288>>, med |-> <<1024, 576>>, high |-> <<1536, 864>>]

\* main, line 1178: encode_png(downsample(bgra, sw, sh, screen_w, screen_h),
\* screen_w, screen_h)
EncodeFrame(bgra, sw, sh, dw, dh, gdiOk) ==
    LET ds == Downsample(bgra, sw, sh, dw, dh, gdiOk)
    IN  [bgra |-> ds,
         png  |-> IF ds.raised # "none" THEN ds ELSE EncodePng(ds.value, dw, dh)]

Dims == -1..MaxDim

\* The frame of one step is downsampled and encoded.
CallEncodeFrame ==
    /\ call = NoCall
    /\ \E sw \in Dims, sh \in Dims, dw \in Dims, dh \in Dims :
       \E n \in 0..(MaxDim * MaxDim * 4), gdiOk \in BOOLEAN :
          /\ call' = [fn |-> "encode_frame", len |-> n, sw |-> sw, sh |-> sh,
                      dw |-> dw, dh |-> dh, gdiOk |-> gdiOk]
          /\ out' = EncodeFrame(Bytes(n), sw, sh, dw, dh, gdiOk)
    /\ UNCHANGED <<mainVars, hudVars, obsVars, histVars>>

\* to_screen without the clamp of its inputs.
ToScreen_NoClamp(x, y, sw, sh) == <<(x * sw) \div 1000, (y * sh) \div 1000>>

\* Coord.to_screen(x, y) for integer normalized x, y on a screen of sw x sh
\* pixels: clamp to [0,1000], scale, int().
ToScreen(x, y, sw, sh) ==
    LET cx == IF x < 0 THEN 0 ELSE IF x > 1000 THEN 1000 ELSE x
        cy == IF y < 0 THEN 0 ELSE IF y > 1000 THEN 1000 ELSE y
    IN  <<(cx * sw) \div 1000, (cy * sh) \div 1000>>

\* to_win32 with the guard against a zero dimension only.
ToWin32_GuardsZeroOnly(p, sw, sh) ==
    <<IF sw # 0 THEN (p[1] * 65535) \div sw ELSE 0,
      IF sh # 0 THEN (p[2] * 65535) \div sh ELSE 0>>

\* Coord.to_win32(x, y): pixel to the 0..65535 range of absolute mouse input.
ToWin32(p, sw, sh) ==
    <<IF sw > 0 THEN (p[1] * 65535) \div sw ELSE 0,
      IF sh > 0 THEN (p[2] * 65535) \div sh ELSE 0>>

\* the INPUT structures make_mouse_input builds
MoveAbs(w)  == [flags |-> "MOVE|ABSOLUTE", dx |-> w[1], dy |-> w[2]]
LeftDown    == [flags |-> "LEFTDOWN", dx |-> 0, dy |-> 0]
LeftUp      == [flags |-> "LEFTUP", dx |-> 0, dy |-> 0]

\* int(w1 + (w2 - w1) * i / 10) of mouse_drag's loop, for w1, w2 >= 0
DragStep(w1, w2, i) == (w1 * 10 + (w2 - w1) * i) \div 10

\* mouse_drag whose loop is range(1, 10): it stops one step short of the end.
MouseDrag_StopsShort(p1, p2, sw, sh) ==
    LET w1 == ToWin32(p1, sw, sh)
        w2 == ToWin32(p2, sw, sh)
    IN  <<  <<MoveAbs(w1), LeftDown>>  >>
        \o [i \in 1..9 |-> <<MoveAbs(<<DragStep(w1[1], w2[1], i), DragStep(w1[2], w2[2], i)>>)>>]
        \o <<  <<LeftUp>>  >>

\* mouse_drag(x1, y1, x2, y2, conv): the batches it hands to send_input, in
\* order, when every send_input call succeeds.
MouseDrag(p1, p2, sw, sh) ==
    LET w1 == ToWin32(p1, sw, sh)
        w2 == ToWin32(p2, sw, sh)
    IN  <<  <<MoveAbs(w1), LeftDown>>  >>
        \o [i \in 1..10 |-> <<MoveAbs(<<DragStep(w1[1], w2[1], i), DragStep(w1[2], w2[2], i)>>)>>]
        \o <<  <<LeftUp>>  >>

\* normalized coordinates a reply may carry, and screen sizes
NormInputs == {-50, 0, 333, 500, 1000, 1200}
Screens    == {<<1920, 1080>>, <<1366, 768>>}

\* execute("drag", args, conv): mouse_drag(*conv.to_screen(x1, y1),
\* *conv.to_screen(x2, y2), conv)
CallDrag ==
    /\ call = NoCall
    /\ \E x1 \in NormInputs, y1 \in NormInputs, x2 \in NormInputs, y2 \in NormInputs :
       \E scr \in Screens :
          /\ call' = [fn |-> "drag", x1 |-> x1, y1 |-> y1, x2 |-> x2, y2 |-> y2,
                      sw |-> scr[1], sh |-> scr[2]]
          /\ out' = Returned(MouseDrag(ToScreen(x1, y1, scr[1], scr[2]),
                                       ToScreen(x2, y2, scr[1], scr[2]), scr[1], scr[2]))
    /\ UNCHANGED <<mainVars, hudVars, obsVars, histVars>>

\* WHEEL_DELTA: one notch of the mouse wheel
WHEEL_DELTA == 120

Abs(n) == IF n < 0 THEN -n ELSE n
Max(a, b) == IF a > b THEN a ELSE b
Min(a, b) == IF a < b THEN a ELSE b

Wheel(data) == [flags |-> "WHEEL", data |-> data]

\* scroll(dy): direction = 1 if dy > 0 else -1; count = max(1, int(abs(dy) /
\* WHEEL_DELTA)); one send_input of count wheel events of WHEEL_DELTA * direction.
Scroll(dy) ==
    LET direction == IF dy > 0 THEN 1 ELSE -1
        count     == Max(1, Abs(dy) \div WHEEL_DELTA)
    IN  <<[i \in 1..count |-> Wheel(WHEEL_DELTA * direction)]>>

ScrollInputs == -3000..3000

\* execute("scroll", args, conv): scroll(float(args["dy"]))
CallScroll ==
    /\ call = NoCall
    /\ \E dy \in ScrollInputs :
          /\ call' = [fn |-> "scroll", dy |-> dy]
          /\ out' = Returned(Scroll(dy))
    /\ UNCHANGED <<mainVars, hudVars, obsVars, histVars>>

NormRange == -100..1100

\* conv.to_screen(x, y), as execute and show_multiple call it; one axis sweeps
\* NormRange while the other takes the values of NormInputs.
CallToScreen ==
    /\ call = NoCall
    /\ \E a \in NormRange, b \in NormInputs, swap \in BOOLEAN, scr \in Screens :
          LET x == IF swap THEN b ELSE a
              y == IF swap THEN a ELSE b
          IN  /\ call' = [fn |-> "to_screen", x |-> x, y |-> y, sw |-> scr[1], sh |-> scr[2]]
              /\ out' = Returned(ToScreen(x, y, scr[1], scr[2]))
    /\ UNCHANGED <<mainVars, hudVars, obsVars, histVars>>

PixelRange   == -5..1925
PixelInputs  == {-1, 0, 540, 1080, 1081}
Win32Screens == Screens \cup {<<0, 0>>, <<-1, 768>>, <<1920, 0>>, <<1366, -1>>}

\* conv.to_win32(x, y) for integer pixels on a Coord of any size
CallToWin32 ==
    /\ call = NoCall
    /\ \E px \in PixelRange, py \in PixelInputs, scr \in Win32Screens :
          /\ call' = [fn |-> "to_win32", x |-> px, y |-> py, sw |-> scr[1], sh |-> scr[2]]
          /\ out' = Returned(ToWin32(<<px, py>>, scr[1], scr[2]))
    /\ UNCHANGED <<mainVars, hudVars, obsVars, histVars>>

\* clamp(v, lo, hi) = max(lo, min(hi, v))
Clamp(v, lo, hi) == Max(lo, Min(hi, v))

\* The rectangle LabeledObsWindow.show(cx, cy, sw, sh, ...) computes:
\* w = max(80, int(sw * OBS_NORM_W)), h = max(60, int(sh * OBS_NORM_H)) with
\* OBS_NORM_W = 0.20 and OBS_NORM_H = 0.15 (int(sw * 0.20) is sw*20 \div 100 and
\* int(sh * 0.15) is sh*15 \div 100 for every size from 0 to 4000), and
\* x = clamp(cx - w // 2, 0, max(0, sw - w)), y likewise.
MarkerRect(cx, cy, sw, sh) ==
    LET mw == Max(80, (sw * 20) \div 100)
        mh == Max(60, (sh * 15) \div 100)
    IN  [x |-> Clamp(cx - mw \div 2, 0, Max(0, sw - mw)),
         y |-> Clamp(cy - mh \div 2, 0, Max(0, sh - mh)),
         w |-> mw, h |-> mh]

RectScreens == Screens \cup {<<50, 40>>, <<80, 60>>, <<400, 300>>}

\* obs.show(ox, oy, sw, sh, ...), the part that places the marker
CallShow ==
    /\ call = NoCall
    /\ \E a \in PixelRange, b \in PixelInputs, swap \in BOOLEAN, scr \in RectScreens :
          LET cx == IF swap THEN b ELSE a
              cy == IF swap THEN a ELSE b
          IN  /\ call' = [fn |-> "show", cx |-> cx, cy |-> cy, sw |-> scr[1], sh |-> scr[2]]
              /\ out' = Returned(MarkerRect(cx, cy, scr[1], scr[2]))
    /\ UNCHANGED <<mainVars, hudVars, obsVars, histVars>>

RECURSIVE Flatten(_)
Flatten(batches) ==
    IF batches = <<>> THEN <<>> ELSE Head(batches) \o Flatten(Tail(batches))

\* The send_input calls of one action, made in order.  failAt = 0: every
\* SendInput inserts its whole batch.  Otherwise SendInput of call failAt
\* inserts only the first k events of its batch, send_input raises WinError
\* and the calls after it are not made.
SendInputs(batches, failAt, k) ==
    IF failAt = 0
       THEN [raised |-> "none", value |-> <<>>, injected |-> Flatten(batches)]
       ELSE [raised |-> "WinError", value |-> <<>>,
             injected |-> Flatten(SubSeq(batches, 1, failAt - 1))
                              \o SubSeq(batches[failAt], 1, k)]

DragEnds == {0, 500, 1000}

\* mouse_drag(*conv.to_screen(x1, y1), *conv.to_screen(x2, y2), conv) with
\* SendInput failing at any one of its calls, or at none
CallDragInject ==
    /\ call = NoCall
    /\ \E x1 \in DragEnds, x2 \in DragEnds, scr \in Screens :
       \E failAt \in 0..12, k \in 0..1 :
          LET batches == MouseDrag(ToScreen(x1, 500, scr[1], scr[2]),
                                   ToScreen(x2, 500, scr[1], scr[2]), scr[1], scr[2])
          IN  /\ failAt = 0 => k = 0
              /\ failAt > 0 => k < Len(batches[failAt])
              /\ call' = [fn |-> "drag_inject", x1 |-> x1, x2 |-> x2,
                          sw |-> scr[1], sh |-> scr[2], failAt |-> failAt, k |-> k]
              /\ out' = SendInputs(batches, failAt, k)
    /\ UNCHANGED <<mainVars, hudVars, obsVars, histVars>>

\* The call under evaluation is over.
Return ==
    /\ call # NoCall
    /\ call' = NoCall /\ out' = NoOut
    /\ UNCHANGED <<mainVars, hudVars, obsVars, histVars>>

CallNext ==
    \/ CallEncodeFrame
    \/ CallDrag
    \/ CallScroll
    \/ CallToScreen
    \/ CallToWin32
    \/ CallShow
    \/ CallDragInject
    \/ Return

CallSpec == Init /\ [][CallNext]_vars

\* ------------------------------------------------- the wheel on its own

\* Two states of Spec from which the wheel is explored without the control
\* loop moving.  ZoomInitHud: the HUD is up, the operator has resumed and the
\* loop is about to capture its first frame; no marker is shown.
ZoomInitHud ==
    /\ pc = "capture" /\ step = 0 /\ resp = NoReply /\ story = ""
    /\ targets = <<>> /\ showIdx = 1 /\ hideIdx = 1 /\ hideRet = "decide"
    /\ execLeft = 0 /\ exc = "none" /\ finalHide = FALSE
    /\ hudTh = "getmsg" /\ hudQ = <<>> /\ hudHwnd = TRUE /\ hudEdit = TRUE
    /\ hudWin = TRUE /\ hudReady = TRUE /\ hudStop = FALSE /\ pauseEvent = TRUE
    /\ paused = FALSE /\ btnLabel = "PAUSE" /\ readonly = TRUE
    /\ hudText = DEFAULT_HUD_TEXT
    /\ zoomNum = HUD_DEFAULT_ZOOM_NUM /\ wheel = NoWheel
    /\ windows = <<>> /\ stale = 0
    /\ stepOutcome = "none" /\ malformed = FALSE /\ injected = 0
    /\ stepUpdated = FALSE /\ textBefore = DEFAULT_HUD_TEXT
    /\ foreign = {}
    /\ call = NoCall /\ out = NoOut

\* ZoomInitMarker: an attend reply's first target has its marker on screen,
\* its second target made show_multiple raise, and the operator has closed the
\* HUD, whose thread has ended; main() is leaving the `with HUD()` block.
ZoomInitMarker ==
    /\ pc = "exit_join" /\ step = 1
    /\ resp = Reply("ok", "attend", TRUE, "s1", "ok", TList(<<Other, BadTarget>>))
    /\ story = "s1"
    /\ targets = <<Other, BadTarget>> /\ showIdx = 2 /\ hideIdx = 1 /\ hideRet = "show"
    /\ execLeft = 0 /\ exc = "targets" /\ finalHide = FALSE
    /\ hudTh = "dead" /\ hudQ = <<"CLOSE">> /\ hudHwnd = TRUE /\ hudEdit = TRUE
    /\ hudWin = FALSE /\ hudReady = TRUE /\ hudStop = TRUE /\ pauseEvent = TRUE
    /\ paused = FALSE /\ btnLabel = "PAUSE" /\ readonly = TRUE
    /\ hudText = DEFAULT_HUD_TEXT
    /\ zoomNum = HUD_DEFAULT_ZOOM_NUM /\ wheel = NoWheel
    /\ windows = <<Shown(Other, "getmsg")>> /\ stale = 0
    /\ stepOutcome = "none" /\ malformed = TRUE /\ injected = 0
    /\ stepUpdated = FALSE /\ textBefore = DEFAULT_HUD_TEXT
    /\ foreign = {}
    /\ call = NoCall /\ out = NoOut

ZoomInit == ZoomInitHud \/ ZoomInitMarker

ZoomNext ==
    \/ HudWheel
    \/ HudCheck
    \/ \E i \in 1..Len(windows) : MarkerWheel(i)

ZoomSpec == ZoomInit /\ [][ZoomNext]_vars

\* -------------------------------------------------------------- properties

\* The control loop makes a capture call, a decision call, an injection call.
CaptureCall   == pc = "capture" /\ pc' # "capture"
DecisionCall  == pc = "decide" /\ pc' # "decide"
InjectionCall == pc = "exec" /\ execLeft > 0 /\ (injected' # injected \/ pc' # "exec")

\* C1: while the Pause Gate is paused the control loop performs no screen
\* capture, no decision call and no input injection, also when the operator
\* toggles pause while a step is in flight.
C1_NoWorkWhilePaused ==
    [][paused => ~(CaptureCall \/ DecisionCall \/ InjectionCall)]_vars

\* C2: show_multiple creates no new marker surface while a marker surface of an
\* earlier batch still exists (its thread has not terminated), also when
\* hide's bounded join timed out.
C2_TeardownBeforeCreate ==
    [][Len(windows') > Len(windows) => stale = 0]_vars

\* C3: at most 4 marker surfaces exist at any time, counting every marker
\* whose thread has started and not terminated, tracked by the manager or not.
C3_AtMostFourMarkers == LiveMarkers <= OBS_MAX_TARGETS

\* C4: after a surface's thread has started, no other thread assigns the
\* surface's text, pause state, zoom or native-handle fields.
C4_SingleWriter == foreign = {}

\* C5: on every way main() ends, hide_all has run after the step loop and no
\* marker surface remains when the process exits.
C5_TornDownAtExit == pc = "done" => (finalHide /\ LiveMarkers = 0)

\* C6: a failure of capture_screen never leaves the step loop.
C6_CaptureFailureAbsorbed == exc # "capture"

\* C7: when the decision call of a step raises, nothing is injected in that
\* step, the loop does not update the HUD and the HUD text is what it was, the
\* loop sleeps and then goes back to the loop test, where the next step starts.
C7_DecisionFailureSkipsStep ==
    /\ [](stepOutcome = "vlm_error" =>
            /\ pc = "vlm_sleep"
            /\ injected = 0
            /\ ~stepUpdated
            /\ hudText = textBefore
            /\ exc = "none")
    /\ [][(stepOutcome = "vlm_error" /\ pc' # pc) =>
            (pc' = "loop_check" /\ hudText' = hudText /\ windows' = windows)]_vars

\* C7 witness: a decision call has raised while the HUD shows a narrative.
C7_Witness ==
    /\ stepOutcome = "vlm_error"
    /\ pc = "vlm_sleep"
    /\ hudWin /\ hudText = DEFAULT_HUD_TEXT

\* C8: a reply that names an unknown action or carries malformed arguments is
\* handled as a decision failure: nothing is injected, the HUD is not updated
\* and the step loop is not left.
C8_MalformedIsDecisionFailure ==
    malformed => (injected = 0 /\ ~stepUpdated /\ exc = "none")

\* C9: when an injection call of a step fails, the loop is not left: the
\* step's action becomes an attend with the single target (500,500), exactly
\* one marker, at that point, is shown, and the step goes on to its end.
C9_InjectionFailureRecovered ==
    stepOutcome = "inject_error" =>
        /\ exc = "none"
        /\ pc \in {"hide", "show", "update", "sleep"}
        /\ resp.name = "attend"
        /\ resp.targets = TList(<<Center>>)
        /\ targets = <<Center>>
        /\ pc \in {"update", "sleep"} => (Len(windows) = 1 /\ windows[1].pt = Center)

\* C9 witness: a drag whose injection failed half-way has ended with the
\* fallback marker shown.
C9_Witness ==
    /\ stepOutcome = "inject_error"
    /\ injected > 1
    /\ pc = "sleep"
    /\ Len(windows) = 1 /\ Alive(windows[1])

\* C10: the HUD text after a step whose action execution failed is the text
\* shown before the step.
C10_NarrativeUnaffected ==
    (stepOutcome \in {"args_error", "inject_error"} /\ pc = "sleep") => hudText = textBefore

\* C11: when the buffer handed to encode_png is empty or shorter than
\* width*height*4 bytes, encode_png returns an empty result and does not raise.
C11_EncodeSoftFailure ==
    (/\ call.fn = "encode_frame"
     /\ out.bgra.raised = "none"
     /\ Len(out.bgra.value) < call.dw * call.dh * 4)
        => out.png = Returned(<<>>)

\* C12: when the operator has rewritten the narrative while paused and has
\* resumed, the control loop has read the HUD text back and holds the
\* operator's text as its current story when it makes the next decision call.
C12_OperatorTextReadBack ==
    [][(DecisionCall /\ hudText \in OperatorTexts) => story = hudText]_vars

\* C13: every path of a surface thread (class registration fails, window
\* creation fails, the window is created) sets the surface's ready event; a
\* thread whose creation failed ends without entering its message loop; and
\* HUD.__enter__ and LabeledObsWindow.show return to their caller.
C13_ReadyOnEveryPath ==
    /\ []((Running /\ hudTh \in {"check", "getmsg", "dead"}) => hudReady)
    /\ [](\A i \in 1..Len(windows) : windows[i].th # "start" => windows[i].ready)
    /\ [](pc = "enter_wait" => ENABLED EnterWait)
    /\ [](pc = "show" => ENABLED (ShowOne \/ ShowDone))
    /\ [][(hudTh = "start" /\ hudTh' # "start" /\ ~hudWin') => hudTh' = "dead"]_vars
    /\ [][\A i \in 1..Len(windows) :
            (/\ Len(windows') = Len(windows)
             /\ windows[i].th = "start" /\ windows'[i].th # "start"
             /\ ~windows'[i].hwnd) => windows'[i].th = "dead"]_vars

\* C13 witness: the HUD's creation has failed, its thread has ended with ready
\* set, and HUD.__enter__ has returned.
C13_Witness ==
    /\ hudTh = "dead" /\ ~hudHwnd /\ hudReady
    /\ pc = "wait0"

\* C14: when the creation of the HUD surface has failed, HUD.wait returns: the
\* control loop is not held at a Pause Gate that nothing can toggle.
C14_WaitReturnsWithoutHud ==
    (pc \in {"wait0", "wait"} /\ hudTh = "dead" /\ ~hudHwnd) => WaitReturns

\* C15: a surface thread whose stop event is set is never waiting in
\* GetMessageW with nothing posted to it; after stop is set it dispatches at
\* most one more message: the loop test that follows a dispatch ends the thread.
C15_StopEndsMessageLoop ==
    /\ []((Running /\ hudTh = "getmsg" /\ hudStop) => hudQ # <<>>)
    /\ [](\A i \in 1..Len(windows) :
            (windows[i].th = "getmsg" /\ windows[i].stop) => windows[i].msg)
    /\ [][(hudStop /\ hudTh = "check") => hudTh' # "getmsg"]_vars
    /\ [][\A i \in 1..Len(windows) :
            (/\ Len(windows') = Len(windows)
             /\ windows[i].th = "getmsg" /\ windows[i].stop
             /\ windows'[i].msg # windows[i].msg) => windows'[i].th = "dead"]_vars

\* C15 witness: hide() has set a marker's stop event and posted WM_CLOSE, its
\* join has timed out, and the marker's thread is in GetMessageW.
C15_Witness ==
    \E i \in 1..Len(windows) :
        windows[i].th = "getmsg" /\ windows[i].stop /\ windows[i].msg

\* the HUD thread dispatches the toggle's WM_COMMAND
ToggleDispatch == hudTh = "getmsg" /\ hudQ # <<>> /\ Head(hudQ) = "CMD" /\ hudTh' = "check"

\* C16: while the HUD window exists, the toggle reads "RESUME" exactly when the
\* gate is paused and "PAUSE" exactly when it is running, and the text region
\* is editable exactly when paused; a toggle command flips paused, the label
\* and the editability together.
C16_ToggleConsistent ==
    /\ [](hudWin => /\ (paused <=> btnLabel = "RESUME")
                    /\ (~paused <=> btnLabel = "PAUSE")
                    /\ (hudEdit => (readonly <=> ~paused)))
    /\ [][ToggleDispatch => /\ paused' = ~paused
                            /\ btnLabel' # btnLabel
                            /\ readonly' = ~readonly]_vars

\* C16 witness: the operator has toggled the gate to running: the toggle
\* reads "PAUSE" and the text region is read-only.
C16_Witness == hudWin /\ ~paused /\ btnLabel = "PAUSE" /\ readonly

\* positions of the control loop inside a step, past the Pause Gate and the
\* stop test that follows it
InStep == {"capture", "encode", "hide", "decide", "story", "route", "exec", "show", "update"}

\* C17: once the gate is paused (and no stop is requested) the control loop
\* starts no further operation of its step: having finished the operation it
\* is in, it does not go on to the next one inside the step.
C17_PauseBlocksLoop ==
    [][(paused /\ ~hudStop /\ paused' /\ pc \in InStep /\ pc' # pc) => pc' \notin InStep]_vars

\* the `targets` of an attend reply are missing, empty, not a list, or hold an
\* element that is not an object
NoUsableTargets(r) ==
    \/ ~r.targets.present \/ ~r.targets.isList \/ r.targets.items = <<>>
    \/ \E i \in 1..Len(r.targets.items) : ~r.targets.items[i].ok

\* show_multiple, called for the attend decided in this step, has ended
AttendShown ==
    /\ resp.name = "attend" /\ stepOutcome = "none"
    /\ pc \in {"update", "sleep"} \/ exc = "targets"

\* C18: after show_multiple for an attend with 5 targets the manager holds
\* exactly 4 markers; for an attend with no targets or malformed targets it
\* holds exactly 1 marker, at the centre (500,500).
C18_AttendMarkerCount ==
    AttendShown =>
        IF NoUsableTargets(resp)
           THEN Len(windows) = 1 /\ windows[1].pt = Center
           ELSE Len(windows) = (IF Len(resp.targets.items) < OBS_MAX_TARGETS
                                   THEN Len(resp.targets.items) ELSE OBS_MAX_TARGETS)

\* C19: in a step whose decided action is attend the control loop never calls
\* send_input: execute is not entered and nothing is injected.
C19_AttendInjectsNothing ==
    (resp.name = "attend" /\ stepOutcome = "none") =>
        (injected = 0 /\ execLeft = 0 /\ pc # "exec")

\* C19 witness: an attend with five targets has been carried out to the end of
\* its step.
C19_Witness ==
    /\ resp.name = "attend" /\ stepOutcome = "none"
    /\ Len(resp.targets.items) = 5
    /\ pc = "sleep" /\ stepUpdated
    /\ Len(windows) = OBS_MAX_TARGETS

\* v lies between a and b, whichever is larger
Between(v, a, b) == (a <= v /\ v <= b) \/ (b <= v /\ v <= a)

\* v is the integer part of the point i tenths of the way from a to b
TenthOfWay(v, a, b, i) == v * 10 <= a * 10 + (b - a) * i /\ a * 10 + (b - a) * i < v * 10 + 10

\* C20: a drag injects, in this order, an absolute move to the device-mapped
\* start point together with left-button-down, then 10 absolute moves
\* linearly interpolated from start to end, the last of them exactly the
\* device-mapped end point, then left-button-up; for (0,0)->(1000,1000) on a
\* 1920x1080 screen the start is device (0,0) and the end is the device
\* mapping of pixel (1920,1080), that is (65535,65535).
C20_DragSequence ==
    call.fn = "drag" =>
        LET b  == out.value
            p1 == ToScreen(call.x1, call.y1, call.sw, call.sh)
            p2 == ToScreen(call.x2, call.y2, call.sw, call.sh)
            w1 == ToWin32(p1, call.sw, call.sh)
            w2 == ToWin32(p2, call.sw, call.sh)
        IN  /\ out.raised = "none"
            /\ Len(b) = 12
            /\ b[1] = <<MoveAbs(w1), LeftDown>>
            /\ \A i \in 1..10 :
                 /\ Len(b[i + 1]) = 1
                 /\ b[i + 1][1].flags = "MOVE|ABSOLUTE"
                 /\ Between(b[i + 1][1].dx, w1[1], w2[1])
                 /\ Between(b[i + 1][1].dy, w1[2], w2[2])
                 /\ TenthOfWay(b[i + 1][1].dx, w1[1], w2[1], i)
                 /\ TenthOfWay(b[i + 1][1].dy, w1[2], w2[2], i)
            /\ b[11] = <<MoveAbs(w2)>>
            /\ b[12] = <<LeftUp>>
            /\ (<<call.x1, call.y1, call.x2, call.y2, call.sw, call.sh>>
                    = <<0, 0, 1000, 1000, 1920, 1080>>)
                 => (p2 = <<1920, 1080>> /\ w1 = <<0, 0>> /\ w2 = <<65535, 65535>>)

\* C20 witness: the drag (0,0)->(1000,1000) on a 1920x1080 screen has been
\* carried out.
C20_Witness ==
    /\ call.fn = "drag"
    /\ <<call.x1, call.y1, call.x2, call.y2, call.sw, call.sh>> = <<0, 0, 1000, 1000, 1920, 1080>>
    /\ Len(out.value) = 12
    /\ out.value[11] = <<MoveAbs(<<65535, 65535>>)>>

\* C21: for every integer dy in [-3000, 3000], scroll(dy) injects exactly
\* max(1, floor(|dy| / 120)) wheel events, each of one notch (120) in the
\* direction sign(dy).
Sign(n) == IF n > 0 THEN 1 ELSE IF n < 0 THEN -1 ELSE 0

WheelEvents(batches) == IF Len(batches) = 0 THEN <<>> ELSE batches[1]

C21_ScrollTicks ==
    call.fn = "scroll" =>
        /\ out.raised = "none"
        /\ Len(out.value) = 1
        /\ Len(WheelEvents(out.value)) = Max(1, Abs(call.dy) \div 120)
        /\ \A i \in 1..Len(WheelEvents(out.value)) :
              WheelEvents(out.value)[i] = Wheel(120 * Sign(call.dy))

\* C22: for x, y in [0, 1000] to_screen returns a pixel pair in
\* [0, screenWidth] x [0, screenHeight]; an input outside [0, 1000] on an axis
\* gives, on that axis, the value of the nearest boundary, each axis clamped
\* on its own, and the call never raises.
Nearest(v) == IF v < 0 THEN 0 ELSE IF v > 1000 THEN 1000 ELSE v

C22_ToScreenClamped ==
    call.fn = "to_screen" =>
        /\ out.raised = "none"
        /\ out.value[1] \in 0..call.sw
        /\ out.value[2] \in 0..call.sh
        /\ out.value[1] = ToScreen(Nearest(call.x), call.y, call.sw, call.sh)[1]
        /\ out.value[2] = ToScreen(call.x, Nearest(call.y), call.sw, call.sh)[2]
        /\ call.x <= 0 => out.value[1] = 0
        /\ call.x >= 1000 => out.value[1] = call.sw
        /\ call.y <= 0 => out.value[2] = 0
        /\ call.y >= 1000 => out.value[2] = call.sh

C22_Witness ==
    /\ call.fn = "to_screen"
    /\ call.x > 1000 /\ call.y < 0
    /\ out = Returned(<<call.sw, 0>>)

\* C23: to_screen and to_win32 never leave their destination range: to_win32
\* returns a value in [0, 65535] on each axis for every integer pixel input
\* and every screen size (and so does to_win32 of a to_screen result).
C23_ToWin32InRange ==
    call.fn = "to_win32" =>
        /\ out.raised = "none"
        /\ out.value[1] \in 0..65535
        /\ out.value[2] \in 0..65535

\* C24: to_win32 returns 0 on each axis whose screen dimension is <= 0, for
\* every pixel input, and never raises.
C24_ToWin32ZeroOnEmptyAxis ==
    call.fn = "to_win32" =>
        /\ out.raised = "none"
        /\ call.sw <= 0 => out.value[1] = 0
        /\ call.sh <= 0 => out.value[2] = 0

C24_Witness ==
    /\ call.fn = "to_win32"
    /\ call.sw < 0 /\ call.sh > 0
    /\ call.x > 0 /\ call.y > 0
    /\ out.raised = "none"
    /\ out.value[1] = 0 /\ out.value[2] > 0

\* C25: downsample(buf, w, h, w, h) returns buf unchanged, for every buffer
\* and every size (w, h).
C25_DownsampleIdentity ==
    (/\ call.fn = "encode_frame"
     /\ call.sw = call.dw
     /\ call.sh = call.dh)
        => out.bgra = Returned(Bytes(call.len))

C25_Witness ==
    /\ call.fn = "encode_frame"
    /\ call.sw = call.dw /\ call.sh = call.dh
    /\ call.sw > 0 /\ call.sh > 0
    /\ call.len > 0 /\ call.len < call.sw * call.sh * 4
    /\ out.bgra = Returned(Bytes(call.len))

\* C26: downsample returns the empty buffer, without raising, whenever any of
\* sw, sh, dw, dh is non-positive or the source is shorter than sw*sh*4 bytes,
\* for every combination of sizes, equal source and destination sizes
\* included.
C26_DownsampleSoftFailure ==
    (/\ call.fn = "encode_frame"
     /\ \/ call.sw <= 0 \/ call.sh <= 0 \/ call.dw <= 0 \/ call.dh <= 0
        \/ call.len < call.sw * call.sh * 4)
        => out.bgra = Returned(<<>>)

\* C27: the encoder's output is the signature followed by exactly three
\* chunks (header, compressed data, empty terminator), each framed as length,
\* tag, payload and the CRC-32 of tag and payload; the header declares the
\* width and height it was given, bit depth 8 and colour type 2, so a frame
\* downsampled to 512 x 288 is declared as 512 x 288.
Encoded == call.fn = "encode_frame" /\ out.png.raised = "none"

C27_PngFraming ==
    /\ Ihdr(RES_PRESETS.low[1], RES_PRESETS.low[2]) = <<512, 288, 8, 2, 0, 0, 0>>
    /\ Encoded =>
          LET png == out.png.value
          IN  /\ Len(png) = 4
              /\ png[1] = PNG_SIGNATURE
              /\ \A i \in 2..4 :
                    /\ Len(png[i]) = 4
                    /\ png[i][1] = PackU32(LenOf(png[i][3]))
                    /\ png[i][4] = PackU32(Crc32(png[i][2], png[i][3]))
              /\ <<png[2][2], png[3][2], png[4][2]>> = <<"IHDR", "IDAT", "IEND">>
              /\ Len(png[2][3]) = 7
              /\ SubSeq(png[2][3], 1, 4) = <<call.dw, call.dh, 8, 2>>
              /\ png[3][3] = ZlibCompress(png[3][3].zlib)
              /\ png[4][3] = <<>>

C27_Witness ==
    /\ Encoded
    /\ <<call.sw, call.sh>> # <<call.dw, call.dh>>
    /\ call.dw = 2 /\ call.dh = 1
    /\ out.bgra = Returned(Stretched(2, 1))
    /\ out.png.value[2] = Chunk("IHDR", <<2, 1, 8, 2, 0, 0, 0>>)

\* C28: the scanline stream the encoder compresses has, for each row, one
\* filter byte 0 followed by width RGB triples, the triple of pixel (x, y)
\* being bytes 2, 1, 0 of that pixel of the BGRA source (alpha dropped); its
\* length is (3 * width + 1) * height.
C28_ScanlineStream ==
    Encoded =>
        LET raw    == out.png.value[3][3].zlib
            bgra   == out.bgra.value
            stride == 3 * call.dw + 1
        IN  /\ Len(raw) = stride * call.dh
            /\ \A y \in 0..(call.dh - 1) :
                  /\ raw[y * stride + 1] = 0
                  /\ \A x \in 0..(call.dw - 1) : \A k \in 0..2 :
                        raw[y * stride + 1 + 3 * x + k + 1]
                            = bgra[(y * call.dw + x) * 4 + (2 - k) + 1]

C28_Witness ==
    /\ Encoded
    /\ call.dw = 2 /\ call.dh = 2 /\ call.len = 16
    /\ out.bgra = Returned(Bytes(16))
    /\ out.png.value[3][3].zlib
          = <<0, 3, 2, 1, 7, 6, 5, 0, 11, 10, 9, 15, 14, 13>>

\* C29: after any sequence of wheel events starting from 180/100 the zoom
\* numerator of each surface stays within [20, 400]; a wheel event with the
\* modifier held sets it to min(400, floor(z * 1.1)) when zooming in and to
\* max(20, floor(z * 0.9)) when zooming out, a wheel event without the
\* modifier leaves it unchanged, and it changes only in a step of the
\* surface's own thread handling a wheel event.
ZoomAfter(z, e) ==
    IF ~e.ctrl THEN z
    ELSE IF e.delta > 0 THEN Min(400, (z * 11) \div 10)
    ELSE Max(20, (z * 9) \div 10)

MarkerZooms == [i \in 1..Len(windows) |-> windows[i].zoom]

C29_ZoomWithinLimits ==
    /\ [](/\ zoomNum \in 20..400
          /\ \A i \in 1..Len(windows) : windows[i].zoom \in 20..400)
    /\ [][wheel' # wheel =>
            /\ wheel'.on = "hud" =>
                  /\ hudTh = "getmsg"
                  /\ zoomNum' = ZoomAfter(zoomNum, wheel')
                  /\ UNCHANGED windows
            /\ wheel'.on # "hud" =>
                  /\ wheel'.idx \in 1..Len(windows)
                  /\ windows[wheel'.idx].th = "getmsg"
                  /\ windows' = [windows EXCEPT ![wheel'.idx].zoom =
                                    ZoomAfter(windows[wheel'.idx].zoom, wheel')]
                  /\ UNCHANGED zoomNum
            /\ UNCHANGED <<mainVars, foreign>>]_vars
    /\ [][(zoomNum' # zoomNum \/ MarkerZooms' # MarkerZooms) => wheel' # wheel]_vars

C29_Witness ==
    /\ wheel # NoWheel
    /\ wheel.on = "hud" /\ wheel.ctrl /\ wheel.delta > 0
    /\ zoomNum = 400

\* C30: for every target point and every screen size, the rectangle show
\* computes lies fully on-screen (0 <= x, x + w <= sw, 0 <= y, y + h <= sh),
\* and it is the rectangle centered on the target whenever that centered
\* rectangle is itself on-screen.
OnScreen(r, sw, sh) ==
    /\ 0 <= r.x /\ r.x + r.w <= sw
    /\ 0 <= r.y /\ r.y + r.h <= sh

Centered(r, cx, cy) == [r EXCEPT !.x = cx - r.w \div 2, !.y = cy - r.h \div 2]

C30_MarkerOnScreen ==
    call.fn = "show" =>
        /\ out.raised = "none"
        /\ OnScreen(out.value, call.sw, call.sh)
        /\ OnScreen(Centered(out.value, call.cx, call.cy), call.sw, call.sh)
              => out.value = Centered(out.value, call.cx, call.cy)

\* The stage of its step the control loop is in (0: between steps, or leaving
\* the loop): 1 wait-if-paused, 2 capture, 3 encode (with the teardown that
\* follows it), 4 decide, 5 route (story, execute, markers), 6 HUD update.
Stage ==
    CASE pc \in {"wait", "stop_check"} -> 1
      [] pc = "capture" -> 2
      [] pc = "encode" \/ (pc = "hide" /\ hideRet = "decide") -> 3
      [] pc \in {"decide", "vlm_sleep"} -> 4
      [] pc \in {"story", "route", "exec", "show"} \/ (pc = "hide" /\ hideRet = "show") -> 5
      [] pc \in {"update", "sleep"} -> 6
      [] OTHER -> 0

\* C31: within each step the control loop goes through wait-if-paused,
\* capture, encode, decide, route and HUD update strictly in that order, a
\* step being entered at its first stage only and no stage being skipped or
\* repeated; an input action is executed only after a successful decision of
\* the same step, and at most one decided action, the one of that decision, is
\* executed per step.
C31_StepOrder ==
    /\ [][/\ Stage' # 0 => Stage' \in {Stage, Stage + 1}
          /\ (pc' = "update" /\ pc # "update") => Stage = 5
          /\ stepUpdated' /\ ~stepUpdated => Stage = 6]_vars
    /\ [][InjectionCall =>
            /\ resp # NoReply /\ resp.net = "ok" /\ stepOutcome = "none"
            /\ resp.name \in TOOL_NAME_SET \ {"attend"}
            /\ injected' <= Batches(resp.name)]_vars
    /\ [][(pc' = "exec" /\ pc # "exec") => (pc = "route" /\ injected = 0)]_vars

C31_Witness ==
    /\ pc = "sleep" /\ stepUpdated
    /\ resp.name = "double_click" /\ injected = 2
    /\ stepOutcome = "none"

\* The control loop has not begun its first step: it is on its way to the
\* first hud.wait() or held there, or a stop request has taken it from there
\* out of the loop.
NotStarted ==
    /\ step = 0 /\ injected = 0
    /\ \/ pc \in {"enter", "enter_wait", "init_update", "wait0"}
       \/ hudStop /\ pc \in {"loop_check", "exit", "exit_join", "done"}
       \/ hudStop /\ pc = "hide" /\ hideRet = "exit"

\* The HUD thread handles the operator's click on the toggle.
ToggleStep == hudTh = "getmsg" /\ hudQ # <<>> /\ Head(hudQ) = "CMD" /\ hudQ' = Tail(hudQ)

\* C32: the HUD starts paused: from process start until the operator's first
\* resume toggle the control loop performs no capture, no decision call and no
\* action execution, and the step counter stays 0.  (The process starts paused
\* with nothing begun; while that is so, every step keeps it so, and the gate
\* leaves paused only when the HUD thread handles a click on the toggle.)
C32_StartsPaused ==
    /\ [](pc = "enter" => (paused /\ NotStarted))
    /\ [][(paused /\ NotStarted) =>
            /\ NotStarted'
            /\ step' = 0
            /\ ~(CaptureCall \/ DecisionCall \/ InjectionCall)]_vars
    /\ [][(paused /\ NotStarted /\ ~paused') => ToggleStep]_vars

C32_Witness ==
    /\ pc = "wait0" /\ paused /\ NotStarted
    /\ hudWin /\ btnLabel = "RESUME" /\ hudTh = "getmsg"
    /\ hudText \in OperatorTexts

\* C33: while the Pause Gate is paused the control loop never overwrites the
\* HUD's narrative text: no hud.update(story) of a step takes effect between a
\* pause toggle and the following resume, so an operator edit made while
\* paused is still the HUD text at resume.
C33_NoUpdateWhilePaused ==
    [][(paused /\ pc = "update" /\ pc' # "update") => hudText' = hudText]_vars

\* a left-button-down among the injected events is followed by no
\* left-button-up
ButtonHeld(events) ==
    \E i \in 1..Len(events) :
        /\ events[i] = LeftDown
        /\ \A j \in (i + 1)..Len(events) : events[j] # LeftUp

\* C34: whenever mouse_drag ends, returning normally or raising because one
\* of its injection batches fails, every left-button-down event it injected
\* has been followed by a left-button-up event: the button is not left held
\* down.
C34_DragReleasesButton ==
    call.fn = "drag_inject" => ~ButtonHeld(out.injected)

\* positions of the control loop from the end of a step's show_multiple to the
\* end of the next step's capture
ShownToCaptured == {"update", "sleep", "loop_check", "wait", "stop_check", "capture"}

\* marker i is on screen: its window exists and its teardown has not begun
OnDisplay(i) == windows[i].th = "getmsg" /\ ~windows[i].stop

\* C35: the markers shown in step n are torn down in step n+1 only after that
\* step's capture has completed and before its decision call starts: from the
\* end of show_multiple to the end of the next capture every marker on display
\* stays tracked and on display, the teardown inside a step runs between
\* encode and decide only, and no marker tracked by the manager is left when a
\* decision call is in progress.
C35_TeardownAfterCapture ==
    /\ [](pc = "decide" => windows = <<>>)
    /\ [][(pc \in ShownToCaptured) =>
            /\ Len(windows') = Len(windows)
            /\ \A i \in 1..Len(windows) : OnDisplay(i) => (windows'[i] = windows[i])]_vars
    /\ [][(pc' = "decide" /\ pc # "decide") =>
            (pc = "hide" /\ hideRet = "decide" /\ hideIdx > Len(windows))]_vars

C35_Witness ==
    /\ pc = "encode"
    /\ Len(windows) > 0
    /\ \A i \in 1..Len(windows) : OnDisplay(i)

====
